---- MODULE Spec2Model ----
(***************************************************************************)
(* Model of src/video_inference.py: the COMISR video super-resolution      *)
(* driver.  The state is the driver's control position, the command-line   *)
(* flags, the VideoReader fields, the three recurrent graph variables      *)
(* (pre_inputs, pre_gen, pre_warp), the video writer and the files the     *)
(* driver creates.  The neural network is opaque: its two graph entry      *)
(* points are modelled as injective symbolic terms over their operands.    *)
(***************************************************************************)
EXTENDS Integers, Sequences, FiniteSets, TLC

\* ---------------------------------------------------------------- bounds
MaxFrames == 8      \* largest frame_count of an input video
MaxStart  == 3      \* largest --start_frame
MaxEnd    == 9      \* largest --end_frame

\* ------------------------------------------------------ program constants
Warmup == 5         \* "Skip first 5 frames as warmup"

None == "None"
InputPath == "in.mp4"
CkptPath  == "model.ckpt"
OutputPaths == {"out.mp4", "results/out.mp4"}

\* os.path.dirname(output_video)
Dirname(p) == IF p = "results/out.mp4" THEN "results" ELSE ""

\* ------------------------------------------------------------ pure parts
\* One pixel of frame idx of the file as OpenCV decodes it: <<B, G, R>>.
VideoFrame(idx) == <<3 * idx, 3 * idx + 1, 3 * idx + 2>>

\* frame[:, :, ::-1] : reverse the channel axis (BGR <-> RGB).
ReverseChannels(px) == <<px[3], px[2], px[1]>>

\* np.array([frame]).astype(np.float32) / 255.0
Normalize(frame) == <<"f32", frame>>

\* tf.zeros(shape)
Zeros == <<"zeros">>

\* ops.deprocess(generator_f(concat(inputs_raw, space_to_depth(pre_warp))))
Generator(inputs_raw, warp) == <<"gen", inputs_raw, warp>>

\* dense_image_warp(pre_gen, flow(fnet(concat(pre_inputs, inputs_raw)))) plus
\* its extracted detail.
WarpHi(gen, prev_in, inputs_raw) == <<"warp", gen, prev_in, inputs_raw>>

\* np.clip(output_frame[0] * 255.0, 0, 255).astype(np.uint8)[:, :, ::-1]
ToBgr8(output_frame) == <<"u8bgr", output_frame>>

\* end_frame if end_frame > 0 else self.frame_count
NormEndFrame(e, fc) == IF e > 0 THEN e ELSE fc

\* if self.current_frame >= self.end_frame: raise StopIteration
AtEnd_Inclusive(cur, e) == cur > e
AtEnd(cur, e) == cur >= e

\* ret of cap.read(): a frame exists at the capture position
ReadOk(pos, fc) == pos < fc

\* VideoReader.__len__
ReaderLen(e, s) == e - s

\* if i != 0: sess.run(before_ops)
RunWarp_Always(i) == TRUE
RunWarp(i) == i /= 0

\* if i >= 5: writer.write(...)
ShouldWrite_Late(i) == i > Warmup
ShouldWrite_Early(i) == i >= Warmup - 1
ShouldWrite(i) == i >= Warmup

\* writer.write(output_img): frames are appended to the container
WriterWrite_Prepend(buf, img) == <<img>> \o buf
WriterWrite(buf, img) == Append(buf, img)

\* Statement order of process_video up to the frame loop.
ProgramOrder_EarlyMkdir ==
  <<"check_ckpt", "open_reader", "makedirs", "probe", "build_graph",
    "open_writer", "session_init", "restore", "len", "loop_next">>
ProgramOrder ==
  <<"check_ckpt", "open_reader", "probe", "build_graph", "makedirs",
    "open_writer", "session_init", "restore", "len", "loop_next">>

Succ(p) ==
  LET k == CHOOSE j \in 1..Len(ProgramOrder) : ProgramOrder[j] = p
  IN  ProgramOrder[k + 1]

\* ------------------------------------------------------------------ state
VARIABLES
  pc,              \* control position
  entry,           \* "main" | "process_video" | "reader"
  input_video, output_video, checkpoint_path, start_frame, end_frame,
  video_openable,  \* the input file can be opened by OpenCV
  frame_count,     \* frames held by the input file
  reader_end,      \* VideoReader.end_frame
  current_frame,   \* VideoReader.current_frame
  cap_pos,         \* position of VideoReader.cap
  yielded,         \* file indices of the frames __next__ has returned
  enum_i,          \* counter of enumerate()
  i, frame,        \* loop variables
  pre_inputs, pre_gen, pre_warp,
  output_frame,
  inputs_hist,     \* input_frame of every iteration
  gen_hist,        \* result of every run of outputs
  warp_log,        \* loop indices at which before_ops ran
  warp_seen,       \* <<pre_inputs, pre_gen>> as before_ops read them
  total_frames,
  dir_created,     \* gfile.makedirs was called
  writer,          \* "none" | "open" | "released"
  written,         \* frames in the temporary video
  temp_exists,     \* output_video + '.temp.mp4' exists
  encoder,         \* "not_run" | "ok" | "failed"
  encoder_after_release,
  removed_after_encoder,
  output_exists,
  reported,        \* the completion line was printed
  err, err_line    \* exception leaving the program, and its line

vars == <<pc, entry, input_video, output_video, checkpoint_path, start_frame,
          end_frame, video_openable, frame_count, reader_end, current_frame,
          cap_pos, yielded, enum_i, i, frame, pre_inputs, pre_gen, pre_warp,
          output_frame, inputs_hist, gen_hist, warp_log, warp_seen,
          total_frames, dir_created, writer, written, temp_exists, encoder,
          encoder_after_release, removed_after_encoder, output_exists,
          reported, err, err_line>>

inputs == <<entry, input_video, output_video, checkpoint_path, start_frame,
            end_frame, video_openable, frame_count>>
readerv == <<reader_end, current_frame, cap_pos, yielded>>
graphv == <<pre_inputs, pre_gen, pre_warp, output_frame, inputs_hist,
            gen_hist, warp_log, warp_seen>>
loopv == <<enum_i, i, frame>>
filesv == <<dir_created, writer, written, temp_exists, encoder,
            encoder_after_release, removed_after_encoder, output_exists>>

Fresh ==
  /\ reader_end = 0 /\ current_frame = 0 /\ cap_pos = 0 /\ yielded = <<>>
  /\ enum_i = 0 /\ i = 0 /\ frame = <<>>
  /\ pre_inputs = <<>> /\ pre_gen = <<>> /\ pre_warp = <<>>
  /\ output_frame = <<>> /\ inputs_hist = <<>> /\ gen_hist = <<>>
  /\ warp_log = <<>> /\ warp_seen = <<>>
  /\ total_frames = 0
  /\ dir_created = FALSE /\ writer = "none" /\ written = <<>>
  /\ temp_exists = FALSE /\ encoder = "not_run"
  /\ encoder_after_release = FALSE /\ removed_after_encoder = FALSE
  /\ output_exists = FALSE /\ reported = FALSE
  /\ err = "none" /\ err_line = 0

Video ==
  /\ frame_count \in 0..MaxFrames
  /\ video_openable \in BOOLEAN
  /\ (~video_openable => frame_count = 0)
  /\ start_frame \in 0..MaxStart
  /\ end_frame \in (-1)..MaxEnd

\* The script run from the command line (main), or process_video called
\* with paths for both videos.
Init ==
  /\ entry \in {"main", "process_video"}
  /\ pc = entry
  /\ Video
  /\ checkpoint_path \in {None, CkptPath}
  /\ IF entry = "main"
       THEN /\ input_video \in {None, InputPath}
            /\ output_video \in {None} \cup OutputPaths
       ELSE /\ input_video = InputPath
            /\ output_video \in OutputPaths
  /\ (input_video = None => ~video_openable)
  /\ Fresh

Raise(kind, line) ==
  /\ pc' = "raised"
  /\ err' = kind
  /\ err_line' = line

\* ------------------------------------------------------------------- main
mainMissingFlag ==
  /\ pc = "main"
  /\ \/ input_video = None /\ Raise("ValueError", 388)
     \/ input_video /= None /\ output_video = None /\ Raise("ValueError", 390)
     \/ /\ input_video /= None /\ output_video /= None
        /\ checkpoint_path = None
        /\ Raise("ValueError", 392)
  /\ UNCHANGED <<inputs, readerv, graphv, loopv, filesv, total_frames,
                 reported>>

mainCall ==
  /\ pc = "main"
  /\ input_video /= None /\ output_video /= None /\ checkpoint_path /= None
  /\ pc' = "process_video"
  /\ UNCHANGED <<inputs, readerv, graphv, loopv, filesv, total_frames,
                 reported, err, err_line>>

\* ---------------------------------------------------------- process_video
processVideoEnter ==
  /\ pc = "process_video"
  /\ pc' = ProgramOrder[1]
  /\ UNCHANGED <<inputs, readerv, graphv, loopv, filesv, total_frames,
                 reported, err, err_line>>

checkCheckpoint ==
  /\ pc = "check_ckpt"
  /\ IF checkpoint_path = None
       THEN Raise("ValueError", 207)
       ELSE pc' = Succ(pc) /\ UNCHANGED <<err, err_line>>
  /\ UNCHANGED <<inputs, readerv, graphv, loopv, filesv, total_frames,
                 reported>>

\* VideoReader.__init__
ReaderInit ==
  /\ reader_end' = NormEndFrame(end_frame, frame_count)
  /\ current_frame' = IF start_frame > 0 THEN start_frame ELSE 0
  /\ cap_pos' = IF start_frame > 0 THEN start_frame ELSE 0
  /\ UNCHANGED yielded

openReader ==
  /\ pc = "open_reader"
  /\ IF ~video_openable
       THEN Raise("ValueError", 76) /\ UNCHANGED readerv
       ELSE ReaderInit /\ pc' = Succ(pc) /\ UNCHANGED <<err, err_line>>
  /\ UNCHANGED <<inputs, graphv, loopv, filesv, total_frames, reported>>

probeFirstFrame ==
  /\ pc = "probe"
  /\ IF ~ReadOk(0, frame_count)
       THEN Raise("ValueError", 216)
       ELSE pc' = Succ(pc) /\ UNCHANGED <<err, err_line>>
  /\ UNCHANGED <<inputs, readerv, graphv, loopv, filesv, total_frames,
                 reported>>

buildGraph ==
  /\ pc = "build_graph"
  /\ pc' = Succ(pc)
  /\ UNCHANGED <<inputs, readerv, graphv, loopv, filesv, total_frames,
                 reported, err, err_line>>

makeOutputDir ==
  /\ pc = "makedirs"
  /\ \E exists \in BOOLEAN :
       dir_created' = (dir_created \/ (Dirname(output_video) /= "" /\ ~exists))
  /\ pc' = Succ(pc)
  /\ UNCHANGED <<inputs, readerv, graphv, loopv, writer, written, temp_exists,
                 encoder, encoder_after_release, removed_after_encoder,
                 output_exists, total_frames, reported, err, err_line>>

openWriter ==
  /\ pc = "open_writer"
  /\ \E opened \in BOOLEAN :
       IF opened
         THEN /\ writer' = "open"
              /\ temp_exists' = TRUE
              /\ pc' = Succ(pc)
              /\ UNCHANGED <<err, err_line>>
         ELSE /\ Raise("ValueError", 325)
              /\ UNCHANGED <<writer, temp_exists>>
  /\ UNCHANGED <<inputs, readerv, graphv, loopv, dir_created, written,
                 encoder, encoder_after_release, removed_after_encoder,
                 output_exists, total_frames, reported>>

\* sess.run(init_op): the three recurrent variables become zeros
sessionInit ==
  /\ pc = "session_init"
  /\ pre_inputs' = Zeros /\ pre_gen' = Zeros /\ pre_warp' = Zeros
  /\ pc' = Succ(pc)
  /\ UNCHANGED <<inputs, readerv, loopv, filesv, output_frame, inputs_hist,
                 gen_hist, warp_log, warp_seen, total_frames, reported, err,
                 err_line>>

\* weight_initializer.restore: only trainable variables are restored; an
\* unreadable checkpoint makes the runtime raise.
restoreWeights ==
  /\ pc = "restore"
  /\ \E valid \in BOOLEAN :
       IF valid
         THEN pc' = Succ(pc) /\ UNCHANGED <<err, err_line>>
         ELSE Raise("RuntimeError", 333)
  /\ UNCHANGED <<inputs, readerv, graphv, loopv, filesv, total_frames,
                 reported>>

\* total_frames = len(video_reader): len() rejects a negative __len__
takeLen ==
  /\ pc = "len"
  /\ IF ReaderLen(reader_end, start_frame) < 0
       THEN Raise("ValueError", 335) /\ UNCHANGED total_frames
       ELSE /\ total_frames' = ReaderLen(reader_end, start_frame)
            /\ pc' = Succ(pc)
            /\ UNCHANGED <<err, err_line>>
  /\ UNCHANGED <<inputs, readerv, graphv, loopv, filesv, reported>>

\* VideoReader.__next__ : Stop is the StopIteration outcome
Stop == AtEnd(current_frame, reader_end) \/ ~ReadOk(cap_pos, frame_count)

ReaderYield ==
  /\ ~Stop
  /\ frame' = ReverseChannels(VideoFrame(cap_pos))
  /\ yielded' = Append(yielded, cap_pos)
  /\ current_frame' = current_frame + 1
  /\ cap_pos' = cap_pos + 1
  /\ UNCHANGED reader_end

\* for i, frame in enumerate(video_reader)
loopNext ==
  /\ pc = "loop_next"
  /\ ReaderYield
  /\ i' = enum_i
  /\ enum_i' = enum_i + 1
  /\ inputs_hist' = Append(inputs_hist, Normalize(frame'))
  /\ pc' = "warp"
  /\ UNCHANGED <<inputs, filesv, pre_inputs, pre_gen, pre_warp, output_frame,
                 gen_hist, warp_log, warp_seen, total_frames, reported, err,
                 err_line>>

loopExit ==
  /\ pc = "loop_next"
  /\ Stop
  /\ pc' = "release"
  /\ UNCHANGED <<inputs, readerv, graphv, loopv, filesv, total_frames,
                 reported, err, err_line>>

\* if i != 0: sess.run(before_ops, feed_dict)
runBeforeOps ==
  /\ pc = "warp"
  /\ IF RunWarp(i)
       THEN /\ pre_warp' = WarpHi(pre_gen, pre_inputs, Normalize(frame))
            /\ warp_log' = Append(warp_log, i)
            /\ warp_seen' = Append(warp_seen, <<pre_inputs, pre_gen>>)
       ELSE UNCHANGED <<pre_warp, warp_log, warp_seen>>
  /\ pc' = "gen"
  /\ UNCHANGED <<inputs, readerv, loopv, filesv, pre_inputs, pre_gen,
                 output_frame, inputs_hist, gen_hist, total_frames, reported,
                 err, err_line>>

\* output_frame = sess.run(outputs, feed_dict): assigns pre_inputs, then
\* pre_gen, and returns the new pre_gen
runOutputs ==
  /\ pc = "gen"
  /\ pre_inputs' = Normalize(frame)
  /\ pre_gen' = Generator(Normalize(frame), pre_warp)
  /\ output_frame' = pre_gen'
  /\ gen_hist' = Append(gen_hist, pre_gen')
  /\ pc' = "write"
  /\ UNCHANGED <<inputs, readerv, loopv, filesv, pre_warp, inputs_hist,
                 warp_log, warp_seen, total_frames, reported, err, err_line>>

\* if i >= 5: writer.write(output_img)   else: warming up
writeFrame ==
  /\ pc = "write"
  /\ IF ShouldWrite(i)
       THEN written' = WriterWrite(written, ToBgr8(output_frame))
       ELSE UNCHANGED written
  /\ pc' = "loop_next"
  /\ UNCHANGED <<inputs, readerv, graphv, loopv, dir_created, writer,
                 temp_exists, encoder, encoder_after_release,
                 removed_after_encoder, output_exists, total_frames, reported,
                 err, err_line>>

releaseWriter ==
  /\ pc = "release"
  /\ writer' = "released"
  /\ pc' = "encode"
  /\ UNCHANGED <<inputs, readerv, graphv, loopv, dir_created, written,
                 temp_exists, encoder, encoder_after_release,
                 removed_after_encoder, output_exists, total_frames, reported,
                 err, err_line>>

\* os.system("ffmpeg -i temp ... output -y"): the exit status is discarded
runEncoder ==
  /\ pc = "encode"
  /\ \E status \in {"ok", "failed"} :
       /\ encoder' = status
       /\ output_exists' = (status = "ok")
  /\ encoder_after_release' = (writer = "released")
  /\ pc' = "cleanup"
  /\ UNCHANGED <<inputs, readerv, graphv, loopv, dir_created, writer, written,
                 temp_exists, removed_after_encoder, total_frames, reported,
                 err, err_line>>

\* if os.path.exists(temp_output_video): os.remove(temp_output_video)
removeTemp ==
  /\ pc = "cleanup"
  /\ IF temp_exists
       THEN /\ temp_exists' = FALSE
            /\ removed_after_encoder' = (encoder /= "not_run")
       ELSE UNCHANGED <<temp_exists, removed_after_encoder>>
  /\ pc' = "report"
  /\ UNCHANGED <<inputs, readerv, graphv, loopv, dir_created, writer, written,
                 encoder, encoder_after_release, output_exists, total_frames,
                 reported, err, err_line>>

\* print('Completed video processing. Output saved to: ...')
reportCompleted ==
  /\ pc = "report"
  /\ reported' = TRUE
  /\ pc' = "stats"
  /\ UNCHANGED <<inputs, readerv, graphv, loopv, filesv, total_frames, err,
                 err_line>>

\* print(... total_time/total_frames ...)
reportAverage ==
  /\ pc = "stats"
  /\ IF total_frames = 0
       THEN Raise("ZeroDivisionError", 380)
       ELSE pc' = "returned" /\ UNCHANGED <<err, err_line>>
  /\ UNCHANGED <<inputs, readerv, graphv, loopv, filesv, total_frames,
                 reported>>

Next ==
  \/ mainMissingFlag
  \/ mainCall
  \/ processVideoEnter
  \/ checkCheckpoint
  \/ openReader
  \/ probeFirstFrame
  \/ buildGraph
  \/ makeOutputDir
  \/ openWriter
  \/ sessionInit
  \/ restoreWeights
  \/ takeLen
  \/ loopNext
  \/ loopExit
  \/ runBeforeOps
  \/ runOutputs
  \/ writeFrame
  \/ releaseWriter
  \/ runEncoder
  \/ removeTemp
  \/ reportCompleted
  \/ reportAverage

Spec == Init /\ [][Next]_vars

\* ------------------------------------------- the VideoReader on its own
\* A VideoReader built on an openable video and iterated to exhaustion.
InitReader ==
  /\ entry = "reader"
  /\ pc = "reader_new"
  /\ Video
  /\ video_openable
  /\ input_video = InputPath
  /\ output_video = None
  /\ checkpoint_path = None
  /\ Fresh

readerNew ==
  /\ pc = "reader_new"
  /\ ReaderInit
  /\ pc' = "reader_iter"
  /\ UNCHANGED <<inputs, graphv, loopv, filesv, total_frames, reported, err,
                 err_line>>

readerNext ==
  /\ pc = "reader_iter"
  /\ ReaderYield
  /\ UNCHANGED <<pc, inputs, graphv, enum_i, i, filesv, total_frames,
                 reported, err, err_line>>

readerStop ==
  /\ pc = "reader_iter"
  /\ Stop
  /\ pc' = "reader_done"
  /\ UNCHANGED <<inputs, readerv, graphv, loopv, filesv, total_frames,
                 reported, err, err_line>>

NextReader ==
  \/ readerNew
  \/ readerNext
  \/ readerStop

SpecReader == InitReader /\ [][NextReader]_vars

\* ----------------------------------------------------------- properties
Max0(n) == IF n > 0 THEN n ELSE 0
Min(a, b) == IF a < b THEN a ELSE b

\* <<a, a+1, ..., b>>, empty when b < a
Range(a, b) == [k \in 1..Max0(b - a + 1) |-> a + k - 1]

\* File index of the frame a written image was computed from.
SourceIndex(img) == img[2][2][2][3] \div 3

\* Input tensor the driver feeds for the frame at file index idx.
InputOf(idx) == Normalize(ReverseChannels(VideoFrame(idx)))

PostLoop == {"release", "encode", "cleanup", "report", "stats", "returned"}

\* C1 (as claimed): when the frame loop ends, the number of frames written
\* to the video writer equals the number of frames read from the reader.
C1_WrittenEqualsRead ==
  pc = "release" => Len(written) = Len(yielded)

\* C1 (amended): when the frame loop ends, every frame read has been run
\* through the graph exactly once, and the frames written are those after
\* the first five: written = max(0, read - 5).
C1_RunAllWriteAfterWarmup ==
  pc = "release" =>
    /\ Len(gen_hist) = Len(yielded)
    /\ Len(written) = Max0(Len(yielded) - Warmup)

C1_Witness ==
  pc = "release" /\ Len(yielded) = 7 /\ Len(written) = 2

\* C2 (as claimed): an exhausted VideoReader has yielded exactly the frames
\* s .. e-1 when e > 0 and s .. frame_count-1 when e = -1, in increasing
\* order and each once.
C2_YieldsStartToEnd ==
  /\ yielded = Range(start_frame, start_frame + Len(yielded) - 1)
  /\ pc = "reader_done" =>
       /\ end_frame > 0 => yielded = Range(start_frame, end_frame - 1)
       /\ end_frame = -1 => yielded = Range(start_frame, frame_count - 1)

\* C2 (amended): the frames yielded are consecutive from s; an exhausted
\* reader has yielded exactly s .. min(e, frame_count)-1 when e > 0 and
\* s .. frame_count-1 when e = -1; no index below s or at/after e (e > 0)
\* is ever yielded.
C2_YieldsStartToEndWithinVideo ==
  /\ yielded = Range(start_frame, start_frame + Len(yielded) - 1)
  /\ \A k \in 1..Len(yielded) :
       /\ yielded[k] >= start_frame
       /\ yielded[k] < frame_count
       /\ end_frame > 0 => yielded[k] < end_frame
  /\ pc = "reader_done" =>
       /\ end_frame > 0 =>
            yielded = Range(start_frame, Min(end_frame, frame_count) - 1)
       /\ end_frame = -1 => yielded = Range(start_frame, frame_count - 1)

C2_Witness ==
  /\ pc = "reader_done"
  /\ start_frame = 2 /\ end_frame > frame_count
  /\ yielded = <<2, 3, 4>>

\* C3: when a required flag is missing in main, or checkpoint_path is None,
\* or the input video cannot be opened, or its first frame cannot be read,
\* the run ends in a ValueError raised by one of the validation statements,
\* and no output directory was created, no temporary video was opened, no
\* frame was read or processed and the encoder was not invoked.
ValidationFails ==
  \/ entry = "main" /\ (input_video = None \/ output_video = None)
  \/ checkpoint_path = None
  \/ ~video_openable
  \/ ~ReadOk(0, frame_count)

NoOutputSideEffect ==
  /\ ~dir_created
  /\ writer = "none" /\ ~temp_exists /\ written = <<>>
  /\ yielded = <<>> /\ gen_hist = <<>> /\ warp_log = <<>>
  /\ encoder = "not_run" /\ ~output_exists

C3_ValidationBeforeSideEffects ==
  /\ ValidationFails =>
       /\ NoOutputSideEffect
       /\ ~reported /\ pc /= "returned"
       /\ pc = "raised" =>
            err = "ValueError" /\ err_line \in {388, 390, 392, 207, 76, 216}
  /\ (pc = "raised" /\ err_line \in {388, 390, 392, 207, 76, 216}) =>
       ValidationFails /\ NoOutputSideEffect

C3_Witness ==
  /\ pc = "raised" /\ err = "ValueError" /\ err_line = 216
  /\ video_openable /\ Dirname(output_video) /= ""

\* C4: whenever the completion line has been printed, the encoder ran
\* successfully after the writer was released and the final output exists;
\* the temporary file was removed after the encoder step and is gone.
C4_CompletedMeansEncoded ==
  reported =>
    /\ encoder = "ok" /\ encoder_after_release /\ output_exists
    /\ removed_after_encoder /\ ~temp_exists

\* C5: at most one frame is in flight; when the next frame is about to be
\* read every earlier frame has had its graph run and its write; frames are
\* written in the order in which they were read.
C5_Sequential ==
  /\ Len(yielded) - Len(gen_hist) \in {0, 1}
  /\ pc = "loop_next" =>
       /\ Len(gen_hist) = Len(yielded)
       /\ Len(written) = Max0(Len(yielded) - Warmup)
  /\ \A k \in 1..(Len(written) - 1) :
       SourceIndex(written[k]) < SourceIndex(written[k + 1])
  /\ \A k \in 1..(Len(yielded) - 1) : yielded[k] < yielded[k + 1]

C5_Witness ==
  pc = "loop_next" /\ Len(written) = 3 /\ Len(yielded) = 8

\* C6: loop index 0 runs no before_ops and its generator step sees an
\* all-zero pre_warp; every index i >= 1 runs before_ops once, before its
\* generator step, reading the input and the output of frame i-1; after
\* the generator step of frame i, pre_inputs is the input of frame i and
\* pre_gen is the output of frame i.
C6_RecurrentState ==
  /\ \A k \in 1..Len(inputs_hist) : inputs_hist[k] = InputOf(yielded[k])
  /\ \A k \in 1..Len(warp_log) :
       /\ warp_log[k] = k
       /\ warp_seen[k] = <<inputs_hist[k], gen_hist[k]>>
  /\ \A k \in 1..Len(gen_hist) :
       gen_hist[k] =
         Generator(inputs_hist[k],
                   IF k = 1 THEN Zeros
                   ELSE WarpHi(gen_hist[k - 1], inputs_hist[k - 1],
                               inputs_hist[k]))
  /\ pc = "gen" => Len(warp_log) = i /\ Len(gen_hist) = i
  /\ (pc = "gen" /\ i = 0) => pre_warp = Zeros
  /\ pc = "write" =>
       /\ Len(gen_hist) = i + 1
       /\ pre_inputs = inputs_hist[i + 1]
       /\ pre_gen = gen_hist[i + 1]
       /\ output_frame = pre_gen

C6_Witness ==
  pc = "write" /\ i = 3 /\ start_frame = 2 /\ Len(warp_log) = 3

\* C7: loop indices 0..4 are run through the graph and update the
\* recurrent state but are not written; the k-th frame written (k >= 0) is
\* the generator output for input frame start_frame + 5 + k; a run that
\* reads n frames writes max(0, n - 5) frames.
C7_Warmup ==
  /\ \A k \in 1..Len(written) :
       /\ Warmup + k <= Len(gen_hist)
       /\ written[k] = ToBgr8(gen_hist[Warmup + k])
       /\ SourceIndex(written[k]) = start_frame + Warmup + (k - 1)
  /\ (pc = "loop_next" /\ i < Warmup) => written = <<>>
  /\ (pc = "loop_next" /\ enum_i > 0) =>
       /\ pre_gen = gen_hist[i + 1]
       /\ pre_inputs = InputOf(start_frame + i)
  /\ pc \in PostLoop => Len(written) = Max0(Len(yielded) - Warmup)

C7_Witness ==
  pc \in PostLoop /\ start_frame = 1 /\ Len(yielded) = 7 /\ Len(written) = 2

\* C8: the total announced before the loop, len(video_reader), equals the
\* number of frames the reader yields during the loop.
C8_LenEqualsYielded ==
  pc = "release" => total_frames = Len(yielded)

\* C9: once the video was read, the writer opened and the checkpoint
\* restored, process_video raises nothing before its completion report.
C9_ReachesReport ==
  (pc = "raised" /\ writer /= "none" /\ err /= "RuntimeError") => reported

====
